---------------------------- MODULE Spec2Model ----------------------------
(***************************************************************************)
(* Ticket form prototype (frontend).  Two versions of the page script      *)
(* exist: the follow-up version (src/unnamed/part_000) and the plain       *)
(* version (frontend/app.js).  Both keep the session in two globals,       *)
(* userId and confirmed, and define two async handlers, confirmUser and    *)
(* submitForm.  An async handler runs synchronously up to its next await;  *)
(* while it is suspended on a request, other handlers may start and run.   *)
(* JavaScript strings are modelled as sequences of one-character strings.  *)
(***************************************************************************)
EXTENDS Integers, Sequences, FiniteSets, TLC

\* ------------------------------------------------------------------ bounds
\* How many calls that reach an await (and so send a request) one
\* behaviour makes; calls that return at once are not counted.
MaxOps == 3
\* Longest list of follow-up questions a response carries.
MaxQuestions == 2
\* Longest digit/garbage suffix and whitespace padding of a typed username.
MaxSuffix == 3
MaxPad == 1

\* ------------------------------------------------------------ JS values
\* null (let userId = null; parseUserId's "return null").
Null == -1

\* !x for the values the handlers test: null, numbers, strings.
Falsy(x) == x = Null \/ x = 0

\* ------------------------------------------------------------ strings
WhiteSpace == {" ", "\t", "\n"}
Digits == <<"0", "1", "2", "3", "4", "5", "6", "7", "8", "9">>
UpperAlpha == <<"A","B","C","D","E","F","G","H","I","J","K","L","M",
                "N","O","P","Q","R","S","T","U","V","W","X","Y","Z">>
LowerAlpha == <<"a","b","c","d","e","f","g","h","i","j","k","l","m",
                "n","o","p","q","r","s","t","u","v","w","x","y","z">>

\* String.prototype.trim: drop leading and trailing white space.
RECURSIVE TrimLeft(_)
TrimLeft(s) ==
    IF s # <<>> /\ Head(s) \in WhiteSpace THEN TrimLeft(Tail(s)) ELSE s

RECURSIVE TrimRight(_)
TrimRight(s) ==
    IF s # <<>> /\ s[Len(s)] \in WhiteSpace
    THEN TrimRight(SubSeq(s, 1, Len(s) - 1))
    ELSE s

Trim(s) == TrimRight(TrimLeft(s))

\* String.prototype.toLowerCase, one character.
LowerChar(c) ==
    IF \E i \in 1..26 : UpperAlpha[i] = c
    THEN LowerAlpha[CHOOSE i \in 1..26 : UpperAlpha[i] = c]
    ELSE c

ToLowerCase(s) == [i \in 1..Len(s) |-> LowerChar(s[i])]

IsDigit(c) == \E i \in 1..10 : Digits[i] = c

DigitValue(c) == (CHOOSE i \in 1..10 : Digits[i] = c) - 1

\* Number(m[1]) for a string of decimal digits.
RECURSIVE Number(_)
Number(ds) ==
    IF ds = <<>> THEN 0
    ELSE 10 * Number(SubSeq(ds, 1, Len(ds) - 1)) + DigitValue(ds[Len(ds)])

StrUser == <<"u", "s", "e", "r">>

\* s.match(/^user(\d{1,2})$/): the captured group (never empty), or <<>>
\* when the string does not match.
MatchUser(s) ==
    IF /\ Len(s) \in {5, 6}
       /\ SubSeq(s, 1, 4) = StrUser
       /\ \A i \in 5..Len(s) : IsDigit(s[i])
    THEN SubSeq(s, 5, Len(s))
    ELSE <<>>

\* A range test that is off by one at the low end.
OutOfRange_FromZero(id) == id < 0 \/ id > 99

\* The range test of parseUserId: if (id < 1 || id > 99) return null.
OutOfRange(id) == id < 1 \/ id > 99

parseUserId(username) ==
    LET m == MatchUser(ToLowerCase(Trim(username)))
    IN  IF m = <<>> THEN Null
        ELSE IF OutOfRange(Number(m)) THEN Null
        ELSE Number(m)

\* ------------------------------------------------------------ inputs
\* What the user may have typed in the username field.
Usernames ==
    { <<" ", "U", "s", "e", "r", "7", " ">>,
      <<"u", "s", "e", "r", "0", "8">>,
      <<"u", "s", "e", "r", "1", "0", "0">> }

\* Values of the table select (tickets_1 .. tickets_5 in schema.sql).
Tables == {1, 3}

Placeholder == <<"-", "-", " ", "V", "e", "l", "g", " ", "-", "-">>
Billing == <<"B", "i", "l", "l", "i", "n", "g">>

\* Values of the inquiry select.
Inquiries == { <<>>, Placeholder, Billing }

\* Contents of the Description field.
Descriptions == { <<>>, <<" ", "\n">>, <<" ", "l", "a", "t", "e", " ", "f", "e", "e", " ">> }

KategoriPrefix == <<"K", "a", "t", "e", "g", "o", "r", "i", ":", " ">>

\* Follow-up questions a response may carry.  A question's id is a JSON
\* number or string; repr is its text.  choicesIsArray is Array.isArray.
Question1 ==
    [id |-> [type |-> "number", repr |-> <<"1">>], question |-> <<"A", "?">>,
     type |-> "multiple_choice", choicesIsArray |-> TRUE,
     choices |-> << <<"x">>, <<"y", "z">> >>]
Question2 ==
    [id |-> [type |-> "number", repr |-> <<"2">>], question |-> <<"B", "?">>,
     type |-> "free_text", choicesIsArray |-> FALSE, choices |-> <<>>]
Question3 ==
    [id |-> [type |-> "string", repr |-> <<"1">>], question |-> <<"C", "?">>,
     type |-> "multiple_choice", choicesIsArray |-> TRUE, choices |-> <<>>]

Question4 ==
    [id |-> [type |-> "number", repr |-> <<"1">>], question |-> <<"D", "?">>,
     type |-> "multiple_choice", choicesIsArray |-> FALSE, choices |-> <<>>]

QuestionCycle == <<Question1, Question2, Question3, Question4>>

\* The question lists tried: the windows of the cycle Question1, Question2,
\* Question3, Question4, Question1, ... that start at Question1 or at
\* Question3, of every length up to MaxQuestions.
QuestionLists ==
    { [i \in 1..n |-> QuestionCycle[((start + i - 2) % 4) + 1]] :
        start \in {1, 3}, n \in 0..MaxQuestions }

\* What prompt() returns: null on cancel, else the text typed, which is
\* empty when the user presses OK on an empty field.
PromptResults ==
    { [cancelled |-> TRUE, text |-> <<>>],
      [cancelled |-> FALSE, text |-> <<>>],
      [cancelled |-> FALSE, text |-> <<" ", "o", "k", " ">>] }

\* How an awaited fetch(...) / res.json() pair ends: the promise rejects
\* (network failure, body not JSON), or it resolves with res.ok false, or
\* with res.ok true.
Outcomes == {"rejected", "not_ok", "ok"}

\* Bodies of a successful /api/ai/followups response.
FollowupData ==
    { [needs_followup |-> FALSE, questionsIsIterable |-> FALSE, questions |-> <<>>] }
    \cup { [needs_followup |-> TRUE, questionsIsIterable |-> FALSE, questions |-> <<>>] }
    \cup { [needs_followup |-> TRUE, questionsIsIterable |-> TRUE, questions |-> qs] :
             qs \in QuestionLists }

NoData == [needs_followup |-> FALSE, questionsIsIterable |-> FALSE, questions |-> <<>>]

\* The ways the follow-up request may end, with the body when res.ok.
FollowupResponses ==
    { [outcome |-> out, data |-> NoData] : out \in Outcomes \ {"ok"} }
    \cup { [outcome |-> "ok", data |-> d] : d \in FollowupData }

\* ------------------------------------------------------------ state
VARIABLES
    script,             \* which version of the page script is loaded
    userId,             \* let userId = null
    confirmed,          \* let confirmed = false
    submitBtnDisabled,  \* document.getElementById("submitBtn").disabled
    userStatus,         \* the userStatus element: its text and colour
    ops,                \* the suspended async calls: id -> frame
    started,            \* how many calls have reached an await so far
    lastEvent,          \* what the latest step did: the request it handed
                        \* to fetch, or the call that returned
    drafts,             \* user ids with a started draft not yet submitted
    lastSession         \* latest session event: draft started / ticket sent

vars == <<script, userId, confirmed, submitBtnDisabled, userStatus, ops,
          started, lastEvent, drafts, lastSession>>

Scripts == {"part_000", "app.js"}

DraftStart == "/api/draft/start"
Followups == "/api/ai/followups"
Tickets == "/api/tickets"
Finalize == "/api/ai/finalize"

\* The page as loaded.  The markup is not among the sources, so the submit
\* button may start enabled or disabled; submitForm is a global function
\* and does its own test of the session, so a call is possible whatever
\* the button's state.
Init ==
    /\ script \in Scripts
    /\ userId = Null
    /\ confirmed = FALSE
    /\ submitBtnDisabled \in BOOLEAN
    /\ userStatus = [text |-> "", color |-> ""]
    /\ ops = <<>>
    /\ started = 0
    /\ lastEvent = [event |-> "none"]
    /\ drafts = {}
    /\ lastSession = "none"

\* An async function that never returns: its frame stays.
Return_Never(o) == ops

\* The frame of a call leaves ops when the call returns.
Return(o) == [p \in DOMAIN ops \ {o} |-> ops[p]]

\* A call that reaches an await gets the first free slot.
CanSuspend == started < MaxOps

FreeSlot == CHOOSE o \in 1..MaxOps :
                o \notin DOMAIN ops /\ \A p \in 1..(o - 1) : p \in DOMAIN ops

Suspend(o, frame) == [p \in DOMAIN ops \cup {o} |-> IF p = o THEN frame ELSE ops[p]]

\* A request handed to fetch.
Request(body) == body @@ [event |-> "request"]

\* What a frame remembers of a request it sent: the endpoint, the user_id
\* and (submitForm's first two requests) the title and description; and
\* whether that user had a not yet submitted draft at that moment.
Hop(body) ==
    [endpoint |-> body.endpoint, user_id |-> body.user_id,
     title |-> IF body.endpoint \in {Followups, Tickets} THEN body.title ELSE <<>>,
     description |-> IF body.endpoint \in {Followups, Tickets}
                     THEN body.description ELSE <<>>,
     draftOpen |-> body.user_id \in drafts]

\* The session as a call finds it: a frame keeps it for comparison with
\* the session the call leaves behind.
AtCall == [userId |-> userId, confirmed |-> confirmed]

Endpoints(trail) == [i \in 1..Len(trail) |-> trail[i].endpoint]

\* ------------------------------------------------------------ confirmUser
\* The body of the draft-start request.
DraftStartBody(id, tableChoice) ==
    IF script = "part_000"
    THEN [endpoint |-> DraftStart, user_id |-> id, table |-> tableChoice]
    ELSE [endpoint |-> DraftStart, user_id |-> id]

\* A test for 0 alone, which lets null through.
InvalidId_ZeroOnly(id) == id = 0

\* if (!id)
InvalidId(id) == Falsy(id)

ConfirmReturned(result, id) ==
    [event |-> "return", kind |-> "confirmUser", result |-> result, id |-> id]

\* confirmUser, from its call to its first await.
confirmUser(username, tableChoice) ==
    LET id == parseUserId(username)
        o == FreeSlot
    IN  IF InvalidId(id)
        THEN /\ userStatus' = [text |-> "Ugyldig brukernavn", color |-> "red"]
             /\ lastEvent' = ConfirmReturned("invalid", id)
                               @@ [username |-> username]
             /\ UNCHANGED <<script, userId, confirmed, submitBtnDisabled, ops,
                            drafts, lastSession, started>>
        ELSE /\ CanSuspend
             /\ started' = started + 1
             /\ lastEvent' = Request(DraftStartBody(id, tableChoice))
                               @@ [username |-> username]
             /\ ops' = Suspend(o, [kind |-> "confirmUser", pc |-> DraftStart,
                                   id |-> id, title |-> <<>>, description |-> <<>>,
                                   trail |-> <<Hop(DraftStartBody(id, tableChoice))>>,
                                   followup |-> "none", nPrompts |-> 0,
                                   atCall |-> AtCall])
             /\ UNCHANGED <<script, userId, confirmed, submitBtnDisabled,
                            userStatus, drafts, lastSession>>

\* A confirmUser that stores the id but forgets "confirmed = true".
ConfirmedState_IdOnly(id) == [userId |-> id, confirmed |-> FALSE]

\* The assignments of confirmUser after a successful draft start.
ConfirmedState(id) == [userId |-> id, confirmed |-> TRUE]

\* A catch block that revoked the session instead.
ConfirmFailedState_Revokes == [userId |-> Null, confirmed |-> FALSE]

\* What confirmUser's catch block does to the session: nothing.
ConfirmFailedState == [userId |-> userId, confirmed |-> confirmed]

\* confirmUser, resumed with the outcome of the draft-start request.
confirmUserResume(o, outcome) ==
    /\ o \in DOMAIN ops
    /\ ops[o].kind = "confirmUser"
    /\ ops' = Return(o)
    /\ IF outcome = "ok"
       THEN /\ userId' = ConfirmedState(ops[o].id).userId
            /\ confirmed' = ConfirmedState(ops[o].id).confirmed
            /\ userStatus' = [text |-> "Bekreftet", color |-> "green"]
            /\ submitBtnDisabled' = FALSE
            /\ lastEvent' = ConfirmReturned("ok", ops[o].id)
            /\ drafts' = drafts \cup {ops[o].id}
            /\ lastSession' = "draft_started"
       ELSE /\ userId' = ConfirmFailedState.userId
            /\ confirmed' = ConfirmFailedState.confirmed
            /\ userStatus' = [text |-> "Kunne ikke starte timer", color |-> "red"]
            /\ lastEvent' = ConfirmReturned("failed", ops[o].id)
            /\ UNCHANGED <<submitBtnDisabled, drafts, lastSession>>
    /\ UNCHANGED <<script, started>>

\* ------------------------------------------------------------ submitForm
\* if (!confirmed || !userId)
NotConfirmed == ~confirmed \/ Falsy(userId)

\* if (!inquiry || inquiry === "-- Velg --")
InquiryMissing(inquiry) == inquiry = <<>> \/ inquiry = Placeholder

\* A submitForm without the description test.
DescriptionMissing_Never(desc) == FALSE

\* if (!desc), desc being the trimmed field.
DescriptionMissing(desc) == desc = <<>>

\* A template with one newline between the category and the text.
ComposeDescription_OneNewline(inquiry, desc) ==
    KategoriPrefix \o inquiry \o <<"\n">> \o desc

\* const description = `Kategori: ${inquiry}\n\n${desc}`
ComposeDescription(inquiry, desc) ==
    KategoriPrefix \o inquiry \o <<"\n", "\n">> \o desc

\* The JSON bodies of the three requests of submitForm.
FollowupsBody(title, description) ==
    [endpoint |-> Followups, user_id |-> userId, title |-> title,
     description |-> description]

\* A ticket request that goes to the finalize endpoint.
TicketsBody_ToFinalize(title, description) ==
    [endpoint |-> Finalize, user_id |-> userId, title |-> title,
     description |-> description]

TicketsBody(title, description) ==
    [endpoint |-> Tickets, user_id |-> userId, title |-> title,
     description |-> description]

FinalizeBody(answers) ==
    [endpoint |-> Finalize, user_id |-> userId, answers |-> answers]

\* A submitForm that sends the ticket before asking for follow-ups.
FirstBody_TicketFirst(title, description) == TicketsBody(title, description)

\* The first request of submitForm: the follow-up request in part_000,
\* the ticket itself in app.js.
FirstBody(title, description) ==
    IF script = "part_000"
    THEN FollowupsBody(title, description)
    ELSE TicketsBody(title, description)

SubmitReturned(result) ==
    [event |-> "return", kind |-> "submitForm", result |-> result]

\* submitForm, from its call to its first await.
submitForm(inquiry, rawDescription) ==
    LET desc == Trim(rawDescription)
        title == inquiry
        description == ComposeDescription(inquiry, desc)
        body == FirstBody(title, description)
        o == FreeSlot
        rejected(why) ==
            /\ lastEvent' = SubmitReturned(why)
            /\ UNCHANGED <<script, userId, confirmed, submitBtnDisabled,
                           userStatus, ops, drafts, lastSession, started>>
    IN  IF NotConfirmed THEN rejected("not_confirmed")
        ELSE IF InquiryMissing(inquiry) THEN rejected("no_inquiry")
        ELSE IF DescriptionMissing(desc) THEN rejected("no_description")
        ELSE /\ CanSuspend
             /\ started' = started + 1
             /\ lastEvent' = Request(body) @@ [inquiry |-> inquiry,
                                               rawDescription |-> rawDescription]
             /\ ops' = Suspend(o, [kind |-> "submitForm", pc |-> body.endpoint,
                                   id |-> Null, title |-> title,
                                   description |-> description,
                                   trail |-> <<Hop(body)>>,
                                   followup |-> "none", nPrompts |-> 0,
                                   atCall |-> AtCall])
             /\ UNCHANGED <<script, userId, confirmed, submitBtnDisabled,
                            userStatus, drafts, lastSession>>

\* What submitForm's catch block does to the session: nothing.
SubmitFailedState == [userId |-> userId, confirmed |-> confirmed]

\* A catch block that sends the failed call's last request once more.
SubmitFailed_Retries(o) ==
    /\ ops' = [ops EXCEPT ![o].trail = Append(@, @[Len(@)])]
    /\ lastEvent' = Request(ops[o].trail[Len(ops[o].trail)])
    /\ UNCHANGED <<script, userId, confirmed, submitBtnDisabled, userStatus,
                   drafts, lastSession, started>>

\* submitForm's catch block: the call returns.
SubmitFailed(o) ==
    /\ ops' = Return(o)
    /\ userId' = SubmitFailedState.userId
    /\ confirmed' = SubmitFailedState.confirmed
    /\ lastEvent' = SubmitReturned("failed")
    /\ UNCHANGED <<script, submitBtnDisabled, userStatus, drafts, lastSession,
                   started>>

\* The text prompt() shows for question q.
RECURSIVE Join(_, _)
Join(items, sep) ==
    IF items = <<>> THEN <<>>
    ELSE IF Len(items) = 1 THEN items[1]
    ELSE items[1] \o sep \o Join(Tail(items), sep)

ShowsChoices(q) ==
    q.type = "multiple_choice" /\ q.choicesIsArray /\ Len(q.choices) > 0

PromptText(q) ==
    IF ShowsChoices(q)
    THEN q.question \o <<"\n", "V", "a", "l", "g", ":", "\n", "-", " ">>
             \o Join(q.choices, <<"\n", "-", " ">>)
    ELSE q.question

\* answers[q.id]: the property key of an id is its text, for a number as
\* for a string.
PropertyKey(id) == id.repr

\* A loop without the || "": the null of a cancelled prompt as text.
AnswerOf_NullAsText(reply) ==
    Trim(IF reply.cancelled THEN <<"n", "u", "l", "l">> ELSE reply.text)

\* prompt(...) || "", trimmed.
AnswerOf(reply) == Trim(IF reply.cancelled THEN <<>> ELSE reply.text)

\* An assignment that keeps the answer already stored under the key.
Assign_KeepFirst(answers, key, value) ==
    [k \in DOMAIN answers \cup {key} |->
        IF k \in DOMAIN answers THEN answers[k] ELSE value]

\* answers[q.id] = answer.trim()
Assign(answers, key, value) ==
    [k \in DOMAIN answers \cup {key} |-> IF k = key THEN value ELSE answers[k]]

\* The for-of loop over followData.questions, replies[i] being what the
\* user does with the i-th prompt.
RECURSIVE CollectAnswers(_, _, _, _)
CollectAnswers(questions, replies, i, answers) ==
    IF i > Len(questions) THEN answers
    ELSE CollectAnswers(questions, replies, i + 1,
             Assign(answers, PropertyKey(questions[i].id), AnswerOf(replies[i])))

\* The prompts the loop shows, in order.
PromptsShown(questions) == [i \in 1..Len(questions) |-> PromptText(questions[i])]

\* submitForm (part_000), resumed with the outcome of the follow-up
\* request and, when res.ok, its body.
submitFormFollowups(o, response, replies) ==
    LET outcome == response.outcome
        data == response.data
    IN
    /\ o \in DOMAIN ops
    /\ ops[o].kind = "submitForm"
    /\ ops[o].pc = Followups
    /\ IF outcome # "ok"
       THEN SubmitFailed(o)
       ELSE IF ~data.needs_followup
       THEN LET body == TicketsBody(ops[o].title, ops[o].description)
            IN  /\ lastEvent' = Request(body)
                /\ ops' = [ops EXCEPT ![o].pc = Tickets,
                                      ![o].followup = "no",
                                      ![o].trail = Append(@, Hop(body))]
                /\ UNCHANGED <<script, userId, confirmed, submitBtnDisabled,
                               userStatus, drafts, lastSession, started>>
       ELSE IF ~data.questionsIsIterable
       THEN SubmitFailed(o)
       ELSE LET body == FinalizeBody(
                            CollectAnswers(data.questions, replies, 1, <<>>))
            IN  /\ lastEvent' = Request(body) @@ [questions |-> data.questions,
                                    prompts |-> PromptsShown(data.questions),
                                    replies |-> replies]
                /\ ops' = [ops EXCEPT ![o].pc = Finalize,
                                      ![o].followup = "yes",
                                      ![o].nPrompts = Len(data.questions),
                                      ![o].trail = Append(@, Hop(body))]
                /\ UNCHANGED <<script, userId, confirmed, submitBtnDisabled,
                               userStatus, drafts, lastSession, started>>

\* A reset that forgot "userId = null".
ResetState_KeepsUser == [userId |-> userId, confirmed |-> FALSE]

\* The reset after a successful submission.
ResetState == [userId |-> Null, confirmed |-> FALSE]

\* submitForm, resumed with the outcome of the ticket or finalize request.
submitFormResume(o, outcome) ==
    /\ o \in DOMAIN ops
    /\ ops[o].kind = "submitForm"
    /\ ops[o].pc \in {Tickets, Finalize}
    /\ IF outcome # "ok"
       THEN SubmitFailed(o)
       ELSE /\ ops' = Return(o)
            /\ confirmed' = ResetState.confirmed
            /\ userId' = ResetState.userId
            /\ submitBtnDisabled' = TRUE
            /\ userStatus' = [userStatus EXCEPT !.text = "Bekreft bruker"]
            /\ lastEvent' = SubmitReturned("ok")
            /\ drafts' = drafts \ {ops[o].trail[Len(ops[o].trail)].user_id}
            /\ lastSession' = "submitted"
            /\ UNCHANGED <<script, started>>

\* ------------------------------------------------------------ behaviours
Next ==
    \/ \E username \in Usernames, tableChoice \in Tables :
           confirmUser(username, tableChoice)
    \/ \E o \in DOMAIN ops, outcome \in Outcomes : confirmUserResume(o, outcome)
    \/ \E inquiry \in Inquiries, rawDescription \in Descriptions :
           submitForm(inquiry, rawDescription)
    \/ \E o \in DOMAIN ops, response \in FollowupResponses :
           \E replies \in [1..Len(response.data.questions) -> PromptResults] :
               submitFormFollowups(o, response, replies)
    \/ \E o \in DOMAIN ops, outcome \in Outcomes : submitFormResume(o, outcome)

Spec == Init /\ [][Next]_vars

\* The continuation of the suspended call o: what the event loop runs once
\* the request the call awaits has resolved (and, in the follow-up path,
\* once the user has dealt with each prompt).
Resume(o) ==
    /\ o \in DOMAIN ops
    /\ \/ /\ ops[o].pc = DraftStart
          /\ \E outcome \in Outcomes : confirmUserResume(o, outcome)
       \/ /\ ops[o].pc = Followups
          /\ \E response \in FollowupResponses :
                 \E replies \in [1..Len(response.data.questions) -> PromptResults] :
                     submitFormFollowups(o, response, replies)
       \/ /\ ops[o].pc \in {Tickets, Finalize}
          /\ \E outcome \in Outcomes : submitFormResume(o, outcome)

\* The script when every request resolves and every prompt is dealt with:
\* the event loop then runs the continuation of each suspended call.
FairSpec == Spec /\ \A o \in 1..MaxOps : WF_vars(Resume(o))

\* ------------------------------------------------------------ parseUserId alone
\* Usernames tried on parseUserId: white space, a word, up to MaxSuffix
\* further characters, white space.
Pads ==
    { [i \in 1..k |-> " "] : k \in 0..MaxPad } \cup { <<"\t">>, <<"\n">> }

Words ==
    { StrUser, <<"U", "s", "e", "r">>, <<"U", "S", "E", "R">>,
      <<"a", "d", "m", "i", "n">>, <<"u", "s", "e">>, <<"a", "u", "s", "e", "r">> }

SuffixChars == {"0", "1", "7", "9", "x"}

Suffixes == UNION { [1..k -> SuffixChars] : k \in 0..MaxSuffix }

ParseInputs ==
    { l \o w \o x \o r : l \in Pads, w \in Words, x \in Suffixes, r \in Pads }

\* The page as loaded, with a username about to be parsed.
InitParse ==
    /\ script \in Scripts
    /\ userId = Null
    /\ confirmed = FALSE
    /\ submitBtnDisabled = TRUE
    /\ userStatus = [text |-> "", color |-> ""]
    /\ ops = <<>>
    /\ started = 0
    /\ lastEvent \in { [event |-> "input", username |-> username] :
                          username \in ParseInputs }
    /\ drafts = {}
    /\ lastSession = "none"

\* One call of parseUserId; it assigns to no variable of the script.
ParseStep ==
    /\ lastEvent.event = "input"
    /\ lastEvent' = [event |-> "parsed", username |-> lastEvent.username,
                     result |-> parseUserId(lastEvent.username)]
    /\ UNCHANGED <<script, userId, confirmed, submitBtnDisabled, userStatus,
                   ops, started, drafts, lastSession>>

NextParse == ParseStep

SpecParse == InitParse /\ [][NextParse]_vars

\* ------------------------------------------------------------ claims
IsReturn(e, kind, result) ==
    e.event = "return" /\ e.kind = kind /\ e.result = result

\* The calls suspended by the step.
NewFrames == DOMAIN ops' \ DOMAIN ops

\* C1: every request to /api/tickets or /api/ai/finalize carries a non-null
\* user_id whose draft was started earlier and has not been used up by a
\* successful submission since.
C1_TicketOnlyForOpenDraft ==
    \A o \in DOMAIN ops :
        \A i \in 1..Len(ops[o].trail) :
            ops[o].trail[i].endpoint \in {Tickets, Finalize} =>
                /\ ops[o].trail[i].user_id # Null
                /\ ops[o].trail[i].draftOpen

\* C2: once a submitForm has succeeded, confirmed is false and userId is
\* null, and no submitForm sends a request, until a confirmUser succeeds.
C2_ResetForcesNewDraft ==
    /\ [](lastSession = "submitted" => confirmed = FALSE /\ userId = Null)
    /\ [][lastSession = "submitted" =>
            \A o \in NewFrames : ops'[o].kind # "submitForm"]_vars

C2_Witness ==
    lastSession = "submitted" /\ IsReturn(lastEvent, "submitForm", "not_confirmed")

\* C3 as stated: a successful draft start leaves confirmed = true and
\* userId = id; a failed one leaves confirmed = false.
C3_FailureLeavesUnconfirmed ==
    /\ IsReturn(lastEvent, "confirmUser", "ok") =>
           confirmed = TRUE /\ userId = lastEvent.id
    /\ IsReturn(lastEvent, "confirmUser", "failed") => confirmed = FALSE

\* C3 as amended: a successful draft start leaves confirmed = true and
\* userId = id; a failed one leaves confirmed and userId as they were just
\* before the failure was handled.
C3_FailureLeavesSessionAsIs ==
    /\ [](IsReturn(lastEvent, "confirmUser", "ok") =>
              confirmed = TRUE /\ userId = lastEvent.id)
    /\ [][IsReturn(lastEvent', "confirmUser", "failed") =>
              confirmed' = confirmed /\ userId' = userId]_vars

C3_Witness ==
    IsReturn(lastEvent, "confirmUser", "failed") /\ confirmed = TRUE

\* The description a frame holds ends in text that is not empty and is
\* trimmed.
HasDescriptionText(frame) ==
    LET d == frame.description
        k == Len(KategoriPrefix) + Len(frame.title) + 2
    IN  Len(d) > k /\ d[k + 1] \notin WhiteSpace /\ d[Len(d)] \notin WhiteSpace

\* C4: a submitForm called while the session is not confirmed, or with no
\* category or the placeholder, or with a description that is empty once
\* trimmed, sends no request and leaves confirmed and userId alone.
C4_RejectedSubmitSendsNothing ==
    [][/\ \A o \in NewFrames :
              ops'[o].kind = "submitForm" =>
                  /\ confirmed = TRUE /\ userId # Null
                  /\ ops'[o].title # <<>> /\ ops'[o].title # Placeholder
                  /\ HasDescriptionText(ops'[o])
       /\ ( \E why \in {"not_confirmed", "no_inquiry", "no_description"} :
                IsReturn(lastEvent', "submitForm", why) )
            => UNCHANGED <<confirmed, userId, ops, started>>]_vars

C4_Witness ==
    IsReturn(lastEvent, "submitForm", "no_description") /\ confirmed = TRUE

\* C5: at most one confirmUser or submitForm is suspended on a request at
\* any time.
C5_OneOperationInFlight == Cardinality(DOMAIN ops) <= 1

IsRequest(e, endpoint) == e.event = "request" /\ e.endpoint = endpoint

StartsWith(s, prefix) ==
    Len(s) >= Len(prefix) /\ SubSeq(s, 1, Len(prefix)) = prefix

Contains(s, part) ==
    \E i \in 0..(Len(s) - Len(part)) : SubSeq(s, i + 1, i + Len(part)) = part

\* What the prompts of a finalize request show: one prompt per question,
\* in the order received, with every choice of a multiple_choice question
\* that has choices.
PromptsFollowQuestions(e) ==
    /\ Len(e.prompts) = Len(e.questions)
    /\ \A i \in 1..Len(e.questions) :
           /\ StartsWith(e.prompts[i], e.questions[i].question)
           /\ ( e.questions[i].type = "multiple_choice"
                /\ e.questions[i].choicesIsArray )
              => \A c \in 1..Len(e.questions[i].choices) :
                     Contains(e.prompts[i],
                              <<"-", " ">> \o e.questions[i].choices[c])

QuestionKeys(e) ==
    { PropertyKey(e.questions[i].id) : i \in 1..Len(e.questions) }

\* C6 as stated: N questions give N prompts in order, choices shown, and
\* an answers mapping of exactly N entries, one per question id.
C6_OneAnswerPerQuestion ==
    IsRequest(lastEvent, Finalize) =>
        /\ PromptsFollowQuestions(lastEvent)
        /\ DOMAIN lastEvent.answers = QuestionKeys(lastEvent)
        /\ Cardinality(DOMAIN lastEvent.answers) = Len(lastEvent.questions)

\* The last question of the list stored under property key k.
LastWithKey(e, k) ==
    CHOOSE i \in 1..Len(e.questions) :
        /\ PropertyKey(e.questions[i].id) = k
        /\ \A j \in (i + 1)..Len(e.questions) :
               PropertyKey(e.questions[j].id) # k

\* C6 as amended: N questions give N prompts in order, choices shown, and
\* an answers mapping with one entry per distinct question id (as a
\* property key), holding the trimmed answer, or "" on cancel, to the last
\* question with that id; so N entries when the ids are pairwise distinct.
C6_OneAnswerPerQuestionId ==
    IsRequest(lastEvent, Finalize) =>
        /\ PromptsFollowQuestions(lastEvent)
        /\ DOMAIN lastEvent.answers = QuestionKeys(lastEvent)
        /\ \A k \in DOMAIN lastEvent.answers :
               LET reply == lastEvent.replies[LastWithKey(lastEvent, k)]
               IN  lastEvent.answers[k] =
                       IF reply.cancelled THEN <<>> ELSE Trim(reply.text)
        /\ ( \A i, j \in 1..Len(lastEvent.questions) :
                 i # j => PropertyKey(lastEvent.questions[i].id)
                              # PropertyKey(lastEvent.questions[j].id) )
           => Cardinality(DOMAIN lastEvent.answers) = Len(lastEvent.questions)

C6_Witness ==
    /\ IsRequest(lastEvent, Finalize)
    /\ lastEvent.questions = <<Question3, Question4>>
    /\ ~lastEvent.replies[1].cancelled
    /\ lastEvent.replies[2].cancelled

\* C7: a submitForm whose follow-up response says needs_followup = false
\* sends exactly one request to /api/tickets, none to /api/ai/finalize, and
\* shows no prompt.
C7_DirectPathOneTicketRequest ==
    \A o \in DOMAIN ops :
        ops[o].followup = "no" =>
            /\ Endpoints(ops[o].trail) = <<Followups, Tickets>>
            /\ ops[o].nPrompts = 0

C7_Witness == \E o \in DOMAIN ops : ops[o].followup = "no"

\* C8: parseUserId returns n exactly for white space, "user" in any case,
\* one or two digits of value n in 1..99, white space; and null otherwise.
IsUserWord(w) ==
    /\ Len(w) = 4
    /\ w[1] \in {"u", "U"} /\ w[2] \in {"s", "S"}
    /\ w[3] \in {"e", "E"} /\ w[4] \in {"r", "R"}

ValueOfDigit ==
    [c \in {"0", "1", "2", "3", "4", "5", "6", "7", "8", "9"} |->
        CASE c = "0" -> 0 [] c = "1" -> 1 [] c = "2" -> 2 [] c = "3" -> 3
          [] c = "4" -> 4 [] c = "5" -> 5 [] c = "6" -> 6 [] c = "7" -> 7
          [] c = "8" -> 8 [] c = "9" -> 9]

\* The numbers s denotes: s is white space, "user" in any case, one or two
\* digits, white space, and the digits read as that number.
Denoted(s) ==
    { IF Len(s) - ab[1] - ab[2] = 5
      THEN ValueOfDigit[s[ab[1] + 5]]
      ELSE 10 * ValueOfDigit[s[ab[1] + 5]] + ValueOfDigit[s[ab[1] + 6]] :
      ab \in { x \in (0..Len(s)) \X (0..Len(s)) :
                 /\ Len(s) - x[1] - x[2] \in {5, 6}
                 /\ \A i \in 1..x[1] : s[i] \in WhiteSpace
                 /\ \A i \in (Len(s) - x[2] + 1)..Len(s) : s[i] \in WhiteSpace
                 /\ IsUserWord(SubSeq(s, x[1] + 1, x[1] + 4))
                 /\ \A i \in (x[1] + 5)..(Len(s) - x[2]) :
                        s[i] \in DOMAIN ValueOfDigit } }

RejectedExamples ==
    { StrUser \o <<"0">>, StrUser \o <<"0", "0">>, StrUser \o <<"1", "0", "0">>,
      <<"a", "d", "m", "i", "n", "1">>, StrUser \o <<"1", "x">> }

C8_ParseUserId ==
    lastEvent.event = "parsed" =>
        /\ LET ids == Denoted(lastEvent.username) \cap 1..99
           IN  IF ids = {} THEN lastEvent.result = Null
               ELSE ids = {lastEvent.result}
        /\ lastEvent.username \in RejectedExamples => lastEvent.result = Null

C8_Witness ==
    /\ lastEvent.event = "parsed"
    /\ lastEvent.username = <<" ", "U", "S", "E", "R", "0", "7", "\t">>
    /\ lastEvent.result = 7

\* C9: a submitForm that fails after validation sends nothing more and
\* leaves confirmed and userId as they were when it started (confirmed, and
\* the user_id its first request carried).
C9_FailedSubmitLeavesSessionAsAtStart ==
    [][IsReturn(lastEvent', "submitForm", "failed") =>
           \A o \in DOMAIN ops \ DOMAIN ops' :
               confirmed' = TRUE /\ userId' = ops[o].trail[1].user_id]_vars

\* C10: confirmUser with a username parseUserId rejects sends no draft-start
\* request and leaves confirmed and userId alone.
C10_InvalidUsernameSendsNothing ==
    /\ [](IsRequest(lastEvent, DraftStart) =>
              /\ parseUserId(lastEvent.username) # Null
              /\ parseUserId(lastEvent.username) = lastEvent.user_id)
    /\ [](IsReturn(lastEvent, "confirmUser", "invalid") =>
              parseUserId(lastEvent.username) = Null)
    /\ [][IsReturn(lastEvent', "confirmUser", "invalid") =>
              UNCHANGED <<confirmed, userId, ops, started>>]_vars

C10_Witness ==
    IsReturn(lastEvent, "confirmUser", "invalid") /\ confirmed = TRUE

\* The requests a call has sent are to pairwise different endpoints.
NoEndpointTwice(trail) ==
    \A i, j \in 1..Len(trail) : i # j => trail[i].endpoint # trail[j].endpoint

\* C11: no request is retried: a confirmUser sends one draft-start request
\* and nothing else, a submitForm sends at most one request to each of the
\* follow-up, ticket and finalize endpoints, and the step that handles a
\* failure ends the call, sends nothing and leaves every other call's
\* requests as they are.
C11_NoRetry ==
    /\ [](\A o \in DOMAIN ops :
             /\ ops[o].kind = "confirmUser" =>
                    Endpoints(ops[o].trail) = <<DraftStart>>
             /\ ops[o].kind = "submitForm" =>
                    /\ NoEndpointTwice(ops[o].trail)
                    /\ \A i \in 1..Len(ops[o].trail) :
                           ops[o].trail[i].endpoint
                               \in {Followups, Tickets, Finalize})
    /\ [][( \E kind \in {"confirmUser", "submitForm"} :
                IsReturn(lastEvent', kind, "failed") )
            => /\ Cardinality(DOMAIN ops \ DOMAIN ops') = 1
               /\ \A p \in DOMAIN ops' : p \in DOMAIN ops /\ ops'[p] = ops[p]]_vars

C11_Witness ==
    /\ IsReturn(lastEvent, "submitForm", "failed")
    /\ \E o \in DOMAIN ops :
           ops[o].kind = "submitForm" /\ Len(ops[o].trail) = 2

\* C12: a confirmUser whose draft-start request fails leaves confirmed and
\* userId exactly as they were when confirmUser was called.
C12_FailedConfirmLeavesSessionAsAtCall ==
    [][IsReturn(lastEvent', "confirmUser", "failed") =>
           \A o \in DOMAIN ops \ DOMAIN ops' :
               /\ confirmed' = ops[o].atCall.confirmed
               /\ userId' = ops[o].atCall.userId]_vars

\* The frames of submitForm calls of the script with follow-ups.
FollowupFrames ==
    { o \in DOMAIN ops : ops[o].kind = "submitForm" /\ script = "part_000" }

\* C13: a submitForm (part_000) sends the follow-up request first; its
\* second request goes out only once the follow-up response was
\* successful, and is the ticket request when needs_followup is false or
\* the finalize request, after a prompt per question, when it is true,
\* never both; and confirmed and userId are reset only by the step in which
\* that second request has succeeded.
C13_ProtocolOrder ==
    /\ [](\A o \in FollowupFrames :
             /\ ops[o].followup = "none" =>
                    Endpoints(ops[o].trail) = <<Followups>>
             /\ ops[o].followup = "no" =>
                    Endpoints(ops[o].trail) = <<Followups, Tickets>>
             /\ ops[o].followup = "yes" =>
                    Endpoints(ops[o].trail) = <<Followups, Finalize>>)
    /\ [](IsRequest(lastEvent, Finalize) =>
             Len(lastEvent.replies) = Len(lastEvent.questions))
    /\ [][\A o \in FollowupFrames :
              ( o \in DOMAIN ops' /\ ops'[o].followup # ops[o].followup )
              => /\ ops[o].followup = "none"
                 /\ lastEvent'.event = "request"
                 /\ lastEvent'.endpoint \in {Tickets, Finalize}]_vars
    /\ [][( (confirmed /\ ~confirmed') \/ (userId # Null /\ userId' = Null) )
            => /\ IsReturn(lastEvent', "submitForm", "ok")
               /\ \E o \in DOMAIN ops \ DOMAIN ops' :
                      /\ ops[o].kind = "submitForm"
                      /\ ops[o].pc \in {Tickets, Finalize}
                      /\ ops[o].pc = ops[o].trail[Len(ops[o].trail)].endpoint
                      /\ script = "part_000" => ops[o].followup # "none"]_vars

C13_Witness ==
    /\ script = "part_000"
    /\ IsReturn(lastEvent, "submitForm", "ok")
    /\ confirmed = FALSE /\ userId = Null
    /\ \E o \in DOMAIN ops : ops[o].followup = "yes"

\* A reply that answers nothing: the prompt cancelled or left empty.
NoAnswer(reply) == reply.cancelled \/ reply.text = <<>>

\* A successful follow-up response that asks the questions qs.
AsksQuestions(qs) ==
    [outcome |-> "ok",
     data |-> [needs_followup |-> TRUE, questionsIsIterable |-> TRUE,
               questions |-> qs]]

\* Once a follow-up request has been sent: whatever questions come back
\* to a submitForm waiting for them and whatever the user does with the
\* prompts, cancelling or leaving empty any of them, the call can go on
\* through all the prompts to the finalize request.
CancellingNeverAborts ==
    \A o \in FollowupFrames :
        ( ops[o].pc = Followups /\ IsRequest(lastEvent, Followups) ) =>
            \A qs \in QuestionLists :
                \A replies \in [1..Len(qs) -> PromptResults] :
                    ENABLED ( /\ submitFormFollowups(o, AsksQuestions(qs), replies)
                              /\ IsRequest(lastEvent', Finalize)
                              /\ lastEvent'.replies = replies
                              /\ Len(lastEvent'.prompts) = Len(qs)
                              /\ o \in DOMAIN ops' )

\* C14 as stated: cancelling or leaving empty any of the prompts does not
\* abort the submission: all questions are prompted, the finalize request
\* is sent, and every question so treated has the empty string as its
\* answer in that request.
C14_CancelledGetsEmptyAnswer ==
    /\ CancellingNeverAborts
    /\ IsRequest(lastEvent, Finalize) =>
           /\ Len(lastEvent.prompts) = Len(lastEvent.questions)
           /\ \A i \in 1..Len(lastEvent.questions) :
                  NoAnswer(lastEvent.replies[i]) =>
                      lastEvent.answers[PropertyKey(lastEvent.questions[i].id)]
                          = <<>>

\* C14 as amended: cancelling or leaving empty any of the prompts does not
\* abort the submission: all questions are prompted, the finalize request
\* is sent, and every question so treated has the empty string as its
\* answer in that request unless a later question has the same id (as a
\* property key), whose answer then stands under that id.
C14_CancelledGetsEmptyAnswerPerId ==
    /\ CancellingNeverAborts
    /\ IsRequest(lastEvent, Finalize) =>
           /\ Len(lastEvent.prompts) = Len(lastEvent.questions)
           /\ \A i \in 1..Len(lastEvent.questions) :
                  LET k == PropertyKey(lastEvent.questions[i].id)
                  IN  ( NoAnswer(lastEvent.replies[i])
                        /\ LastWithKey(lastEvent, k) = i )
                      => lastEvent.answers[k] = <<>>

C14_Witness ==
    /\ IsRequest(lastEvent, Finalize)
    /\ lastEvent.questions = <<Question1, Question2>>
    /\ lastEvent.replies[1].cancelled
    /\ lastEvent.replies[2] = [cancelled |-> FALSE, text |-> <<" ", "o", "k", " ">>]
    /\ lastEvent.answers[PropertyKey(Question1.id)] = <<>>

\* C15: when every request resolves and every prompt is dealt with, every
\* call suspended on a request eventually returns, and the step in which a
\* call returns either makes its success state change or reports an error.
C15_EveryOperationCompletes ==
    /\ \A o \in 1..MaxOps : (o \in DOMAIN ops) ~> (o \notin DOMAIN ops)
    /\ [][\A o \in DOMAIN ops \ DOMAIN ops' :
              \/ /\ IsReturn(lastEvent', ops[o].kind, "ok")
                 /\ ops[o].kind = "confirmUser" =>
                        confirmed' /\ userId' = ops[o].id
                 /\ ops[o].kind = "submitForm" =>
                        ~confirmed' /\ userId' = Null
              \/ IsReturn(lastEvent', ops[o].kind, "failed")]_vars

C15_Witness ==
    /\ ops = <<>>
    /\ started = MaxOps
    /\ IsReturn(lastEvent, "submitForm", "ok")
    /\ script = "part_000"

\* t is raw without its leading and trailing white space.
IsTrimmed(t, raw) ==
    /\ t = <<>> \/ (t[1] \notin WhiteSpace /\ t[Len(t)] \notin WhiteSpace)
    /\ \E a \in 0..(Len(raw) - Len(t)) :
           /\ SubSeq(raw, a + 1, a + Len(t)) = t
           /\ \A i \in (1..a) \cup ((a + Len(t) + 1)..Len(raw)) :
                  raw[i] \in WhiteSpace

\* The request is the first one of a submitForm, sent with the form's
\* fields as they were read.
IsSubmission(e) == e.event = "request" /\ "inquiry" \in DOMAIN e

\* C16: the first request of a validated submission has title = the
\* selected inquiry and description = "Kategori: " + inquiry + two newlines
\* + the trimmed description text, and the ticket request of the same call
\* carries the same title and description as its follow-up request.
C16_TitleAndDescription ==
    /\ IsSubmission(lastEvent) =>
           /\ lastEvent.title = lastEvent.inquiry
           /\ \E k \in 0..Len(lastEvent.rawDescription) :
                  LET text == SubSeq(lastEvent.description,
                                     Len(lastEvent.description) - k + 1,
                                     Len(lastEvent.description))
                  IN  /\ k <= Len(lastEvent.description)
                      /\ IsTrimmed(text, lastEvent.rawDescription)
                      /\ lastEvent.description =
                             KategoriPrefix \o lastEvent.inquiry
                                 \o <<"\n", "\n">> \o text
           /\ \E o \in DOMAIN ops :
                  /\ ops[o].trail[1].title = lastEvent.title
                  /\ ops[o].trail[1].description = lastEvent.description
    /\ \A o \in DOMAIN ops :
           ( Len(ops[o].trail) = 2 /\ ops[o].trail[2].endpoint = Tickets ) =>
               /\ ops[o].trail[1].endpoint = Followups
               /\ ops[o].trail[2].title = ops[o].trail[1].title
               /\ ops[o].trail[2].description = ops[o].trail[1].description
    /\ ( IsRequest(lastEvent, Tickets) /\ ~IsSubmission(lastEvent) ) =>
           \E o \in DOMAIN ops :
               /\ Len(ops[o].trail) = 2
               /\ lastEvent.title = ops[o].trail[1].title
               /\ lastEvent.description = ops[o].trail[1].description

C16_Witness ==
    /\ script = "part_000"
    /\ IsRequest(lastEvent, Tickets)
    /\ lastEvent.title = Billing
    /\ lastEvent.description =
           KategoriPrefix \o Billing
               \o <<"\n", "\n", "l", "a", "t", "e", " ", "f", "e", "e">>

\* C17: in every state, whatever calls are suspended or have returned,
\* confirmed is true exactly when userId is an integer from 1 to 99 and
\* not null.
C17_ConfirmedIffUserId ==
    confirmed <=> (userId # Null /\ userId \in 1..99)

C17_Witness ==
    /\ confirmed /\ userId = 7
    /\ IsReturn(lastEvent, "confirmUser", "ok")
    /\ lastSession = "draft_started"
    /\ \E o \in DOMAIN ops : ops[o].kind = "submitForm" /\ ops[o].atCall.userId = 8

\* C18: the second request of a submitForm (ticket or finalize) carries the
\* user_id its follow-up request carried, whatever other calls run while
\* it is suspended.
C18_SecondRequestSameUser ==
    \A o \in DOMAIN ops :
        ( ops[o].kind = "submitForm" /\ Len(ops[o].trail) = 2 ) =>
            ops[o].trail[2].user_id = ops[o].trail[1].user_id

=============================================================================
